---- MODULE Spec2Model ----
(***************************************************************************)
(* The garbage-collection protectors of Py-notify (notify/gc.c): the       *)
(* FastGCProtector, RaisingGCProtector and DebugGCProtector types, the     *)
(* abstract base type, and the AbstractGCProtector.default property kept   *)
(* in the module state.                                                    *)
(***************************************************************************)
EXTENDS Integers, FiniteSets, Sequences, TLC

(* ------------------------------------------------------------------ *)
(* Bounds of the model                                                 *)
(* ------------------------------------------------------------------ *)

\* protect is explored while fewer than MaxProt protections are outstanding,
\* all protectors taken together
MaxProt == 2
\* FastGCProtector.unprotect of an object it does not hold is explored
\* until the protector is MaxDeficit references short on that object
MaxDeficit == 1
\* calls made side by side on a Fast, a Raising and a Debug protector: protect is
\* explored while each of them has fewer than MaxSideBySide active protections
MaxSideBySide == 3

(* ------------------------------------------------------------------ *)
(* Values                                                              *)
(* ------------------------------------------------------------------ *)

Py_None == "None"
\* a C pointer is modelled as a tuple: <<>> is the null pointer, <<x>> points to x
NULL    == <<>>
\* where the record of a call has nothing to name
Nothing == "-"

\* the objects client code passes to protect / unprotect
Objects   == {"o1", "o2"}
Arguments == Objects \cup {Py_None}

\* one instance of every type of the module
FastProtectors     == {"f1"}
RaisingProtectors  == {"r1"}
DebugProtectors    == {"d1"}
AbstractProtectors == {"a1"}

\* RaisingGCProtector struct: DebugGCProtector is a typedef of it
AccountingProtectors == RaisingProtectors \cup DebugProtectors
\* the types that have a num_active_protections field
CountingProtectors   == FastProtectors \cup AccountingProtectors
Protectors           == CountingProtectors \cup AbstractProtectors

\* AbstractGCProtector_Type has Py_TPFLAGS_BASETYPE: instances of Python
\* subclasses.  c1 implements protect and unprotect itself and has no
\* num_active_protections; h1 has num_active_protections as a property whose
\* getter assigns AbstractGCProtector.default
CustomProtectors   == {"c1"}
HookedProtectors   == {"h1"}
SubclassProtectors == CustomProtectors \cup HookedProtectors
AllProtectors      == Protectors \cup SubclassProtectors

\* values that are no protector: a plain object, and an object for which the
\* instance test itself fails
PlainValues  == {"x_plain"}
BrokenValues == {"x_broken"}
Values       == Protectors \cup PlainValues \cup BrokenValues

\* the part of tp_name after the last dot (strrchr (type_name, '.') + 1)
ShortTypeName(p) ==
  CASE p \in FastProtectors     -> "FastGCProtector"
    [] p \in RaisingProtectors  -> "RaisingGCProtector"
    [] p \in DebugProtectors    -> "DebugGCProtector_Type"
    [] p \in AbstractProtectors -> "AbstractGCProtector"

\* the exceptions a call can end with: the exception type and what its message says
NoError == [type |-> "none", detail |-> ""]
ValueError_NotProtector ==
  [type |-> "ValueError", detail |-> "can only set AbstractGCProtector.default to an instance of AbstractGCProtector"]
ValueError_Active ==
  [type |-> "ValueError", detail |-> "cannot set a different GC protector: current has active protections"]
TypeError_Argument ==
  [type |-> "TypeError", detail |-> "argument 1 must be notify.gc.AbstractGCProtector"]
InstanceCheckError ==
  [type |-> "Exception", detail |-> "raised by the instance check"]
UnprotectionError(p) ==
  [type |-> "UnprotectionError", detail |-> ShortTypeName(p)]
NotImplementedError ==
  [type |-> "NotImplementedError", detail |-> "raise_not_implemented_exception"]

VARIABLES
  default_protector,        \* GCModuleState.default_protector
  default_refs,             \* references the module state holds on each protector
  num_active_protections,   \* the field of Fast/Raising/DebugGCProtector
  protected_objects_dict,   \* RaisingGCProtector.protected_objects_dict: id -> count
  owned_refs,               \* per protector and object: Py_INCREFs taken minus references given back
  net_calls,                \* history: protect calls minus successful unprotect calls
  busy_failed,              \* history: a set_default was refused since the last replacement
  installed,                \* history: the argument of the last set_default that succeeded
  slot_writes,              \* history: the stores to default_protector made during the last call
  last                      \* the last call and its outcome

vars == <<default_protector, default_refs, num_active_protections,
          protected_objects_dict, owned_refs, net_calls, busy_failed, installed,
          slot_writes, last>>

(* ------------------------------------------------------------------ *)
(* Host runtime primitives the code uses                               *)
(* ------------------------------------------------------------------ *)

\* the address of an object, as an integer
PyLong_FromVoidPtr(object) ==
  CASE object = Py_None -> 1000
    [] object = "o1"    -> 1001
    [] object = "o2"    -> 1002

EmptyDict == [id \in {} |-> 0]

PyDict_GetItem(dict, id) == IF id \in DOMAIN dict THEN <<dict[id]>> ELSE NULL

PyDict_SetItem(dict, id, value) ==
  [k \in (DOMAIN dict) \cup {id} |-> IF k = id THEN value ELSE dict[k]]

PyDict_DelItem(dict, id) == [k \in (DOMAIN dict) \ {id} |-> dict[k]]

PyDict_Size(dict) == Cardinality(DOMAIN dict)

\* PyObject_IsInstance (value, &AbstractGCProtector_Type)
PyObject_IsInstance(value) ==
  CASE value \in AllProtectors -> 1
    [] value \in PlainValues  -> 0
    [] value \in BrokenValues -> -1

\* the "O!" argument check against AbstractGCProtector_Type
PyArg_IsAbstractGCProtector(value) == value \in AllProtectors

\* mutant: the test sees that the attribute exists, not what its value is
PyObject_IsTrue_Presence(number) == 1

\* truth value of an integer object
PyObject_IsTrue(number) == IF number = 0 THEN 0 ELSE 1


(* ------------------------------------------------------------------ *)
(* State after module initialisation                                   *)
(* ------------------------------------------------------------------ *)

\* the record of a call: the method, the instance it was called on (for the
\* default property: the protector found installed), the argument, the exception
\* and the value it ended with, whether PyErr_Print printed a diagnostic, and
\* whether it is a set_default made after a refusal of set_default
Call(op, self, arg, err, ret, diag, retry) ==
  [op |-> op, self |-> self, arg |-> arg, err |-> err, ret |-> ret,
   diag |-> diag, retry |-> retry]

\* gc_module_initialize_state: the default protector is a new FastGCProtector;
\* the other instances are created by their type's tp_new / tp_init
\* (FastGCProtector_init, RaisingGCProtector_init) with zeroed fields and an empty dict
Init ==
  /\ default_protector \in FastProtectors
  /\ default_refs = [p \in AllProtectors |-> IF p = default_protector THEN 1 ELSE 0]
  /\ num_active_protections = [p \in CountingProtectors |-> 0]
  /\ protected_objects_dict = [p \in AccountingProtectors |-> EmptyDict]
  /\ owned_refs = [p \in CountingProtectors \cup CustomProtectors |-> [o \in Arguments |-> 0]]
  /\ net_calls = [p \in CountingProtectors |-> [o \in Objects |-> 0]]
  /\ busy_failed = FALSE
  /\ installed = default_protector
  /\ slot_writes = 0
  /\ last = Call("init", Nothing, Nothing, NoError, NULL, FALSE, FALSE)

(* ------------------------------------------------------------------ *)
(* FastGCProtector                                                     *)
(* ------------------------------------------------------------------ *)

\* what a method does to its instance: the new field values, the references
\* on the argument taken (+1) or given back (-1), and the outcome
Effect(num, dict, refs, err, ret, diag) ==
  [num |-> num, dict |-> dict, refs |-> refs, err |-> err, ret |-> ret, diag |-> diag]

\* mutant: the reference is taken but the counter is not incremented
FastGCProtector_protect_effect_NoCount(num, object) ==
  IF object # Py_None
    THEN Effect(num, EmptyDict, 1, NoError, <<object>>, FALSE)
    ELSE Effect(num, EmptyDict, 0, NoError, <<object>>, FALSE)

FastGCProtector_protect_effect(num, object) ==
  IF object # Py_None
    THEN Effect(num + 1, EmptyDict, 1, NoError, <<object>>, FALSE)
    ELSE Effect(num, EmptyDict, 0, NoError, <<object>>, FALSE)

\* mutant: the counter is not decremented below zero
FastGCProtector_unprotect_effect_Clamp(num, object) ==
  IF object # Py_None
    THEN IF num > 0
           THEN Effect(num - 1, EmptyDict, -1, NoError, <<object>>, FALSE)
           ELSE Effect(num, EmptyDict, 0, NoError, <<object>>, FALSE)
    ELSE Effect(num, EmptyDict, 0, NoError, <<object>>, FALSE)

\* mutant: a reference is taken for the return statement for every object, as it
\* is for None
FastGCProtector_unprotect_effect_KeepsRef(num, object) ==
  IF object # Py_None
    THEN Effect(num - 1, EmptyDict, 0, NoError, <<object>>, FALSE)
    ELSE Effect(num, EmptyDict, 0, NoError, <<object>>, FALSE)

\* the return statement hands the protector's reference to the caller
FastGCProtector_unprotect_effect(num, object) ==
  IF object # Py_None
    THEN Effect(num - 1, EmptyDict, -1, NoError, <<object>>, FALSE)
    ELSE Effect(num, EmptyDict, 0, NoError, <<object>>, FALSE)

FastGCProtector_get_num_active_protections(self) == num_active_protections[self]

(* ------------------------------------------------------------------ *)
(* RaisingGCProtector and DebugGCProtector                             *)
(* ------------------------------------------------------------------ *)

\* mutant: an object that is protected already is entered with count 1 again
RaisingGCProtector_protect_effect_Reset(num, dict, object) ==
  IF object # Py_None
    THEN Effect(num + 1, PyDict_SetItem(dict, PyLong_FromVoidPtr(object), 1), 1,
                NoError, <<object>>, FALSE)
    ELSE Effect(num, dict, 0, NoError, <<object>>, FALSE)

\* mutant: the counter is incremented for the first protection of an object only
RaisingGCProtector_protect_effect_CountDistinct(num, dict, object) ==
  IF object # Py_None
    THEN LET id                  == PyLong_FromVoidPtr(object)
             num_protections     == PyDict_GetItem(dict, id)
             num_protections_new == IF num_protections # NULL
                                      THEN num_protections[1] + 1
                                      ELSE 1
         IN  Effect(IF num_protections # NULL THEN num ELSE num + 1,
                    PyDict_SetItem(dict, id, num_protections_new), 1,
                    NoError, <<object>>, FALSE)
    ELSE Effect(num, dict, 0, NoError, <<object>>, FALSE)

\* mutant: the dictionary and the counter are updated but no reference is taken
RaisingGCProtector_protect_effect_NoIncref(num, dict, object) ==
  IF object # Py_None
    THEN LET id                  == PyLong_FromVoidPtr(object)
             num_protections     == PyDict_GetItem(dict, id)
             num_protections_new == IF num_protections # NULL
                                      THEN num_protections[1] + 1
                                      ELSE 1
         IN  Effect(num + 1, PyDict_SetItem(dict, id, num_protections_new), 0,
                    NoError, <<object>>, FALSE)
    ELSE Effect(num, dict, 0, NoError, <<object>>, FALSE)

RaisingGCProtector_protect_effect(num, dict, object) ==
  IF object # Py_None
    THEN LET id                  == PyLong_FromVoidPtr(object)
             num_protections     == PyDict_GetItem(dict, id)
             num_protections_new == IF num_protections # NULL
                                      THEN num_protections[1] + 1
                                      ELSE 1
         IN  Effect(num + 1, PyDict_SetItem(dict, id, num_protections_new), 1,
                    NoError, <<object>>, FALSE)
    ELSE Effect(num, dict, 0, NoError, <<object>>, FALSE)

\* mutant: the entry is deleted whatever the new count is
RaisingGCProtector_unprotect_effect_DelAlways(self, num, dict, object) ==
  IF object # Py_None
    THEN LET id              == PyLong_FromVoidPtr(object)
             num_protections == PyDict_GetItem(dict, id)
         IN  IF num_protections # NULL
               THEN Effect(num - 1, PyDict_DelItem(dict, id), -1, NoError, <<object>>, FALSE)
               ELSE Effect(num, dict, 0, UnprotectionError(self), NULL, FALSE)
    ELSE Effect(num, dict, 0, NoError, <<object>>, FALSE)

\* mutant: the counter is decremented before the dictionary is looked at
RaisingGCProtector_unprotect_effect_DecOnError(self, num, dict, object) ==
  IF object # Py_None
    THEN LET id              == PyLong_FromVoidPtr(object)
             num_protections == PyDict_GetItem(dict, id)
         IN  IF num_protections # NULL
               THEN LET num_protections_new == num_protections[1] - 1
                    IN  Effect(num - 1,
                               IF num_protections_new # 0
                                 THEN PyDict_SetItem(dict, id, num_protections_new)
                                 ELSE PyDict_DelItem(dict, id),
                               -1, NoError, <<object>>, FALSE)
               ELSE Effect(num - 1, dict, 0, UnprotectionError(self), NULL, FALSE)
    ELSE Effect(num, dict, 0, NoError, <<object>>, FALSE)

\* mutant: None is looked up in the dictionary like any other object
RaisingGCProtector_unprotect_effect_NoNoneTest(self, num, dict, object) ==
  LET id              == PyLong_FromVoidPtr(object)
      num_protections == PyDict_GetItem(dict, id)
  IN  IF num_protections # NULL
        THEN LET num_protections_new == num_protections[1] - 1
             IN  Effect(num - 1,
                        IF num_protections_new # 0
                          THEN PyDict_SetItem(dict, id, num_protections_new)
                          ELSE PyDict_DelItem(dict, id),
                        -1, NoError, <<object>>, FALSE)
        ELSE Effect(num, dict, 0, UnprotectionError(self), NULL, FALSE)

\* mutant: the last unprotection stores the count 0 and keeps the key
RaisingGCProtector_unprotect_effect_KeepZero(self, num, dict, object) ==
  IF object # Py_None
    THEN LET id              == PyLong_FromVoidPtr(object)
             num_protections == PyDict_GetItem(dict, id)
         IN  IF num_protections # NULL
               THEN Effect(num - 1, PyDict_SetItem(dict, id, num_protections[1] - 1),
                           -1, NoError, <<object>>, FALSE)
               ELSE Effect(num, dict, 0, UnprotectionError(self), NULL, FALSE)
    ELSE Effect(num, dict, 0, NoError, <<object>>, FALSE)

\* mutant: when the last protection of an object is removed the dictionary is
\* emptied
RaisingGCProtector_unprotect_effect_ClearsAll(self, num, dict, object) ==
  IF object # Py_None
    THEN LET id              == PyLong_FromVoidPtr(object)
             num_protections == PyDict_GetItem(dict, id)
         IN  IF num_protections # NULL
               THEN LET num_protections_new == num_protections[1] - 1
                    IN  Effect(num - 1,
                               IF num_protections_new # 0
                                 THEN PyDict_SetItem(dict, id, num_protections_new)
                                 ELSE EmptyDict,
                               -1, NoError, <<object>>, FALSE)
               ELSE Effect(num, dict, 0, UnprotectionError(self), NULL, FALSE)
    ELSE Effect(num, dict, 0, NoError, <<object>>, FALSE)

\* mutant: the last protection of an object cannot be removed
RaisingGCProtector_unprotect_effect_StuckAtOne(self, num, dict, object) ==
  IF object # Py_None
    THEN LET id              == PyLong_FromVoidPtr(object)
             num_protections == PyDict_GetItem(dict, id)
         IN  IF num_protections # NULL /\ num_protections[1] - 1 # 0
               THEN Effect(num - 1, PyDict_SetItem(dict, id, num_protections[1] - 1),
                           -1, NoError, <<object>>, FALSE)
               ELSE Effect(num, dict, 0, UnprotectionError(self), NULL, FALSE)
    ELSE Effect(num, dict, 0, NoError, <<object>>, FALSE)

RaisingGCProtector_unprotect_effect(self, num, dict, object) ==
  IF object # Py_None
    THEN LET id              == PyLong_FromVoidPtr(object)
             num_protections == PyDict_GetItem(dict, id)
         IN  IF num_protections # NULL
               THEN LET num_protections_new == num_protections[1] - 1
                    IN  Effect(num - 1,
                               IF num_protections_new # 0
                                 THEN PyDict_SetItem(dict, id, num_protections_new)
                                 ELSE PyDict_DelItem(dict, id),
                               -1, NoError, <<object>>, FALSE)
               ELSE Effect(num, dict, 0, UnprotectionError(self), NULL, FALSE)
    ELSE Effect(num, dict, 0, NoError, <<object>>, FALSE)

\* mutant: the result of the inherited unprotect is returned as it is
DebugGCProtector_unprotect_effect_Propagate(self, num, dict, object) ==
  RaisingGCProtector_unprotect_effect(self, num, dict, object)

\* mutant: after a failure the object is returned without taking a reference for
\* the return statement
DebugGCProtector_unprotect_effect_NoIncref(self, num, dict, object) ==
  LET super == RaisingGCProtector_unprotect_effect(self, num, dict, object)
  IN  IF super.ret = NULL
        THEN Effect(super.num, super.dict, super.refs - 1, NoError, <<object>>, TRUE)
        ELSE Effect(super.num, super.dict, super.refs, NoError, <<object>>, FALSE)

\* mutant: an absorbed unprotect still decrements the counter
DebugGCProtector_unprotect_effect_CountsAbsorbed(self, num, dict, object) ==
  LET super == RaisingGCProtector_unprotect_effect(self, num, dict, object)
  IN  IF super.ret = NULL
        THEN Effect(super.num - 1, super.dict, super.refs, NoError, <<object>>, TRUE)
        ELSE Effect(super.num, super.dict, super.refs, NoError, <<object>>, FALSE)

\* mutant: the error of the inherited unprotect is cleared without being printed
DebugGCProtector_unprotect_effect_Silent(self, num, dict, object) ==
  LET super == RaisingGCProtector_unprotect_effect(self, num, dict, object)
  IN  Effect(super.num, super.dict, super.refs, NoError, <<object>>, FALSE)

\* the inherited unprotect; when it fails the error is printed and cleared
DebugGCProtector_unprotect_effect(self, num, dict, object) ==
  LET super == RaisingGCProtector_unprotect_effect(self, num, dict, object)
  IN  IF super.ret = NULL
        THEN Effect(super.num, super.dict, super.refs, NoError, <<object>>, TRUE)
        ELSE Effect(super.num, super.dict, super.refs, NoError, <<object>>, FALSE)

RaisingGCProtector_get_num_object_protections(self, object) ==
  LET id              == PyLong_FromVoidPtr(object)
      num_protections == PyDict_GetItem(protected_objects_dict[self], id)
  IN  IF num_protections # NULL THEN num_protections[1] ELSE 0

\* mutant: the number of protections is reported, not the number of keys
RaisingGCProtector_get_num_protected_objects_Active(self) ==
  num_active_protections[self]

RaisingGCProtector_get_num_protected_objects(self) ==
  PyDict_Size(protected_objects_dict[self])

RaisingGCProtector_get_num_active_protections(self) == num_active_protections[self]


(* ------------------------------------------------------------------ *)
(* Calls of protect and unprotect                                      *)
(* ------------------------------------------------------------------ *)

\* history of the calls on non-sentinel objects: a protect that returned counts +1,
\* an unprotect that returned without error and without a diagnostic counts -1
Counted(op, object, eff) ==
  IF object = Py_None \/ eff.err # NoError \/ eff.diag
    THEN 0
    ELSE IF op = "protect" THEN 1 ELSE -1

\* mutant: the dictionary is shared by the accounting protectors
Apply_SharedDict(op, self, object, eff) ==
  /\ num_active_protections' = [num_active_protections EXCEPT ![self] = eff.num]
  /\ protected_objects_dict' =
       IF self \in AccountingProtectors
         THEN [p \in AccountingProtectors |-> eff.dict]
         ELSE protected_objects_dict
  /\ owned_refs' = [owned_refs EXCEPT ![self][object] = @ + eff.refs]
  /\ net_calls' =
       IF object # Py_None
         THEN [net_calls EXCEPT ![self][object] = @ + Counted(op, object, eff)]
         ELSE net_calls
  /\ last' = Call(op, self, object, eff.err, eff.ret, eff.diag, FALSE)
  /\ slot_writes' = 0
  /\ UNCHANGED <<default_protector, default_refs, busy_failed, installed>>

\* store the effect of a method in the instance and record the call
Apply(op, self, object, eff) ==
  /\ num_active_protections' = [num_active_protections EXCEPT ![self] = eff.num]
  /\ protected_objects_dict' =
       IF self \in AccountingProtectors
         THEN [protected_objects_dict EXCEPT ![self] = eff.dict]
         ELSE protected_objects_dict
  /\ owned_refs' = [owned_refs EXCEPT ![self][object] = @ + eff.refs]
  /\ net_calls' =
       IF object # Py_None
         THEN [net_calls EXCEPT ![self][object] = @ + Counted(op, object, eff)]
         ELSE net_calls
  /\ last' = Call(op, self, object, eff.err, eff.ret, eff.diag, FALSE)
  /\ slot_writes' = 0
  /\ UNCHANGED <<default_protector, default_refs, busy_failed, installed>>

\* the protections outstanding over all protectors (a protector that has given
\* back more than it took counts as none)
Outstanding ==
  LET held(p) == IF num_active_protections[p] > 0 THEN num_active_protections[p] ELSE 0
  IN  held("f1") + held("r1") + held("d1")

FastGCProtector_protect(self, object) ==
  /\ self \in FastProtectors
  /\ object # Py_None => Outstanding < MaxProt
  /\ Apply("protect", self, object,
           FastGCProtector_protect_effect(num_active_protections[self], object))

FastGCProtector_unprotect(self, object) ==
  /\ self \in FastProtectors
  /\ object # Py_None => owned_refs[self][object] > - MaxDeficit
  /\ Apply("unprotect", self, object,
           FastGCProtector_unprotect_effect(num_active_protections[self], object))

\* DebugGCProtector has no protect of its own: its tp_base is RaisingGCProtector
RaisingGCProtector_protect(self, object) ==
  /\ self \in AccountingProtectors
  /\ object # Py_None => Outstanding < MaxProt
  /\ Apply("protect", self, object,
           RaisingGCProtector_protect_effect(num_active_protections[self],
                                             protected_objects_dict[self], object))

RaisingGCProtector_unprotect(self, object) ==
  /\ self \in RaisingProtectors
  /\ Apply("unprotect", self, object,
           RaisingGCProtector_unprotect_effect(self, num_active_protections[self],
                                               protected_objects_dict[self], object))

DebugGCProtector_unprotect(self, object) ==
  /\ self \in DebugProtectors
  /\ Apply("unprotect", self, object,
           DebugGCProtector_unprotect_effect(self, num_active_protections[self],
                                             protected_objects_dict[self], object))

\* the base type's methods call raise_not_implemented_exception
AbstractGCProtector_protect(self, object) ==
  /\ self \in AbstractProtectors
  /\ last' = Call("protect", self, object, NotImplementedError, NULL, FALSE, FALSE)
  /\ slot_writes' = 0
  /\ UNCHANGED <<default_protector, default_refs, num_active_protections,
                 protected_objects_dict, owned_refs, net_calls, busy_failed, installed>>

AbstractGCProtector_unprotect(self, object) ==
  /\ self \in AbstractProtectors
  /\ last' = Call("unprotect", self, object, NotImplementedError, NULL, FALSE, FALSE)
  /\ slot_writes' = 0
  /\ UNCHANGED <<default_protector, default_refs, num_active_protections,
                 protected_objects_dict, owned_refs, net_calls, busy_failed, installed>>

(* ------------------------------------------------------------------ *)
(* The default protector                                               *)
(* ------------------------------------------------------------------ *)

GCProtectorMeta_get_default ==
  /\ last' = Call("get_default", default_protector, Nothing, NoError,
                      <<default_protector>>, FALSE, FALSE)
  /\ slot_writes' = 0
  /\ UNCHANGED <<default_protector, default_refs, num_active_protections,
                 protected_objects_dict, owned_refs, net_calls, busy_failed, installed>>

\* mutant: the attribute is looked up under a name no protector has
GetAttr_num_active_protections_Missing(protector) == NULL

\* PyObject_GetAttrString (current_protector, "num_active_protections"):
\* the property of the three counting types; the base type has none
GetAttr_num_active_protections(protector) ==
  IF protector \in CountingProtectors
    THEN <<num_active_protections[protector]>>
    ELSE NULL

\* mutant: the active protections of the current protector are not looked at
SetDefaultDecision_NoBusyCheck(value, current_protector, attribute) ==
  IF value = current_protector
    THEN [replace |-> FALSE, err |-> NoError]
    ELSE CASE PyObject_IsInstance(value) = 1 ->
                [replace |-> TRUE, err |-> NoError]
           [] PyObject_IsInstance(value) = 0 ->
                [replace |-> FALSE, err |-> ValueError_NotProtector]
           [] OTHER ->
                [replace |-> FALSE, err |-> InstanceCheckError]

\* mutant: the new protector is stored before the current one is checked
SetDefaultDecision_AssignFirst(value, current_protector, attribute) ==
  IF value = current_protector
    THEN [replace |-> FALSE, err |-> NoError]
    ELSE CASE PyObject_IsInstance(value) = 1 ->
                IF attribute # NULL /\ PyObject_IsTrue(attribute[1]) # 0
                  THEN [replace |-> TRUE, err |-> ValueError_Active]
                  ELSE [replace |-> TRUE, err |-> NoError]
           [] PyObject_IsInstance(value) = 0 ->
                [replace |-> FALSE, err |-> ValueError_NotProtector]
           [] OTHER ->
                [replace |-> FALSE, err |-> InstanceCheckError]

\* mutant: the value is not tested for being a protector
SetDefaultDecision_NoTypeCheck(value, current_protector, attribute) ==
  IF value = current_protector
    THEN [replace |-> FALSE, err |-> NoError]
    ELSE IF attribute # NULL
           THEN IF PyObject_IsTrue(attribute[1]) = 0
                  THEN [replace |-> TRUE, err |-> NoError]
                  ELSE [replace |-> FALSE, err |-> ValueError_Active]
           ELSE [replace |-> TRUE, err |-> NoError]

\* mutant: when the current protector has no num_active_protections the setter
\* reports success without storing the value
SetDefaultDecision_NoStore(value, current_protector, attribute) ==
  IF value = current_protector
    THEN [replace |-> FALSE, err |-> NoError]
    ELSE CASE PyObject_IsInstance(value) = 1 ->
                IF attribute # NULL
                  THEN IF PyObject_IsTrue(attribute[1]) = 0
                         THEN [replace |-> TRUE, err |-> NoError]
                         ELSE [replace |-> FALSE, err |-> ValueError_Active]
                  ELSE [replace |-> FALSE, err |-> NoError]
           [] PyObject_IsInstance(value) = 0 ->
                [replace |-> FALSE, err |-> ValueError_NotProtector]
           [] OTHER ->
                [replace |-> FALSE, err |-> InstanceCheckError]

\* mutant: the value is not compared with the current protector
SetDefaultDecision_NoSameTest(value, current_protector, attribute) ==
  CASE PyObject_IsInstance(value) = 1 ->
         IF attribute # NULL
           THEN IF PyObject_IsTrue(attribute[1]) = 0
                  THEN [replace |-> TRUE, err |-> NoError]
                  ELSE [replace |-> FALSE, err |-> ValueError_Active]
           ELSE [replace |-> TRUE, err |-> NoError]
    [] PyObject_IsInstance(value) = 0 ->
         [replace |-> FALSE, err |-> ValueError_NotProtector]
    [] OTHER ->
         [replace |-> FALSE, err |-> InstanceCheckError]

\* mutant: the active protections are tested before the type of the value
SetDefaultDecision_BusyFirst(value, current_protector, attribute) ==
  IF value = current_protector
    THEN [replace |-> FALSE, err |-> NoError]
    ELSE IF attribute # NULL /\ PyObject_IsTrue(attribute[1]) # 0
           THEN [replace |-> FALSE, err |-> ValueError_Active]
           ELSE CASE PyObject_IsInstance(value) = 1 ->
                       [replace |-> TRUE, err |-> NoError]
                  [] PyObject_IsInstance(value) = 0 ->
                       [replace |-> FALSE, err |-> ValueError_NotProtector]
                  [] OTHER ->
                       [replace |-> FALSE, err |-> InstanceCheckError]

\* mutant: a current protector without num_active_protections is taken to be in use
SetDefaultDecision_RefuseWithoutCount(value, current_protector, attribute) ==
  IF value = current_protector
    THEN [replace |-> FALSE, err |-> NoError]
    ELSE CASE PyObject_IsInstance(value) = 1 ->
                IF attribute # NULL /\ PyObject_IsTrue(attribute[1]) = 0
                  THEN [replace |-> TRUE, err |-> NoError]
                  ELSE [replace |-> FALSE, err |-> ValueError_Active]
           [] PyObject_IsInstance(value) = 0 ->
                [replace |-> FALSE, err |-> ValueError_NotProtector]
           [] OTHER ->
                [replace |-> FALSE, err |-> InstanceCheckError]

\* the decision of GCProtectorMeta_set_default: whether the slot is replaced,
\* and the error the call sets
SetDefaultDecision(value, current_protector, attribute) ==
  IF value = current_protector
    THEN [replace |-> FALSE, err |-> NoError]
    ELSE CASE PyObject_IsInstance(value) = 1 ->
                IF attribute # NULL
                  THEN IF PyObject_IsTrue(attribute[1]) = 0
                         THEN [replace |-> TRUE, err |-> NoError]
                         ELSE [replace |-> FALSE, err |-> ValueError_Active]
                  ELSE [replace |-> TRUE, err |-> NoError]
           [] PyObject_IsInstance(value) = 0 ->
                [replace |-> FALSE, err |-> ValueError_NotProtector]
           [] OTHER ->
                [replace |-> FALSE, err |-> InstanceCheckError]

\* the body of GCProtectorMeta_set_default, recorded as a call of `op'
SetDefault(op, value, ok, failed) ==
  LET current_protector == default_protector
      decision == SetDefaultDecision(value, current_protector,
                                     GetAttr_num_active_protections(current_protector))
  IN  /\ default_protector' = IF decision.replace THEN value ELSE current_protector
      /\ default_refs' =
           IF decision.replace
             THEN [default_refs EXCEPT ![value] = @ + 1, ![current_protector] = @ - 1]
             ELSE default_refs
      /\ busy_failed' =
           IF decision.replace
             THEN FALSE
             ELSE IF decision.err = ValueError_Active THEN TRUE ELSE busy_failed
      /\ last' = Call(op, current_protector, value, decision.err,
                      IF decision.err = NoError THEN ok ELSE failed, FALSE, busy_failed)
      /\ installed' = IF decision.err = NoError THEN value ELSE installed
      /\ slot_writes' = IF decision.replace THEN 1 ELSE 0
      /\ UNCHANGED <<num_active_protections, protected_objects_dict, owned_refs, net_calls>>

\* AbstractGCProtector.default = value
GCProtectorMeta_set_default(value) ==
  SetDefault("default=", value, <<"0">>, <<"-1">>)

\* the deprecated AbstractGCProtector.set_default (protector)
AbstractGCProtector_set_default(new_protector) ==
  IF PyArg_IsAbstractGCProtector(new_protector)
    THEN SetDefault("set_default", new_protector, <<Py_None>>, NULL)
    ELSE /\ last' = Call("set_default", default_protector, new_protector,
                         TypeError_Argument, NULL, FALSE, busy_failed)
         /\ slot_writes' = 0
         /\ UNCHANGED <<default_protector, default_refs, num_active_protections,
                        protected_objects_dict, owned_refs, net_calls, busy_failed, installed>>

(* ------------------------------------------------------------------ *)
(* Specification                                                       *)
(* ------------------------------------------------------------------ *)

Next ==
  \/ \E self \in FastProtectors, object \in Arguments :
        FastGCProtector_protect(self, object)
  \/ \E self \in FastProtectors, object \in Arguments :
        FastGCProtector_unprotect(self, object)
  \/ \E self \in AccountingProtectors, object \in Arguments :
        RaisingGCProtector_protect(self, object)
  \/ \E self \in RaisingProtectors, object \in Arguments :
        RaisingGCProtector_unprotect(self, object)
  \/ \E self \in DebugProtectors, object \in Arguments :
        DebugGCProtector_unprotect(self, object)
  \/ \E self \in AbstractProtectors, object \in Arguments :
        AbstractGCProtector_protect(self, object)
  \/ \E self \in AbstractProtectors, object \in Arguments :
        AbstractGCProtector_unprotect(self, object)
  \/ GCProtectorMeta_get_default
  \/ \E value \in Values : GCProtectorMeta_set_default(value)
  \/ \E value \in Values : AbstractGCProtector_set_default(value)

Spec == Init /\ [][Next]_vars

(* ------------------------------------------------------------------ *)
(* Python subclasses of AbstractGCProtector                            *)
(* ------------------------------------------------------------------ *)

\* the references a subclass instance holds on objects
CustomHeld ==
  LET held(p, o) == IF owned_refs[p][o] > 0 THEN owned_refs[p][o] ELSE 0
  IN  held("c1", "o1") + held("c1", "o2")

\* protect as a subclass defines it after ABSTRACT_GC_PROTECTOR_PROTECT_DOC: None
\* is passed through, any other object is kept alive by a reference of the
\* instance; the instance has no num_active_protections
CustomProtector_protect(self, object) ==
  /\ self \in CustomProtectors
  /\ object # Py_None => Outstanding + CustomHeld < MaxProt
  /\ owned_refs' = [owned_refs EXCEPT ![self][object] = @ + (IF object # Py_None THEN 1 ELSE 0)]
  /\ last' = Call("protect", self, object, NoError, <<object>>, FALSE, FALSE)
  /\ slot_writes' = 0
  /\ UNCHANGED <<default_protector, default_refs, num_active_protections,
                 protected_objects_dict, net_calls, busy_failed, installed>>

\* unprotect as a subclass defines it after ABSTRACT_GC_PROTECTOR_UNPROTECT_DOC,
\* called for objects the instance protects
CustomProtector_unprotect(self, object) ==
  /\ self \in CustomProtectors
  /\ object # Py_None => owned_refs[self][object] > 0
  /\ owned_refs' = [owned_refs EXCEPT ![self][object] = @ - (IF object # Py_None THEN 1 ELSE 0)]
  /\ last' = Call("unprotect", self, object, NoError, <<object>>, FALSE, FALSE)
  /\ slot_writes' = 0
  /\ UNCHANGED <<default_protector, default_refs, num_active_protections,
                 protected_objects_dict, net_calls, busy_failed, installed>>

\* GCProtectorMeta_set_default gets as far as
\* PyObject_GetAttrString (current_protector, "num_active_protections")
ReadsCount(value, current_protector) ==
  value # current_protector /\ PyObject_IsInstance(value) = 1

\* GCProtectorMeta_set_default while a hooked protector is installed.
\* current_protector is read from the module state on entry; then
\* PyObject_GetAttrString runs the getter, which assigns
\* AbstractGCProtector.default = inner (a whole nested call of the setter, in
\* which the getter, entered again, returns 0 at once) and returns 0; then the
\* outer call stores value and releases current_protector.
SetDefaultReentrant(op, value, inner, ok, failed) ==
  LET current_protector == default_protector
      nested      == SetDefaultDecision(inner, default_protector, <<0>>)
      nested_refs == IF nested.replace
                       THEN [default_refs EXCEPT ![inner] = @ + 1,
                                                 ![default_protector] = @ - 1]
                       ELSE default_refs
      decision    == SetDefaultDecision(value, current_protector, <<0>>)
  IN  /\ default_protector' =
           IF decision.replace
             THEN value
             ELSE IF nested.replace THEN inner ELSE default_protector
      /\ default_refs' =
           IF decision.replace
             THEN [nested_refs EXCEPT ![value] = @ + 1, ![current_protector] = @ - 1]
             ELSE nested_refs
      /\ busy_failed' =
           IF decision.replace \/ nested.replace
             THEN FALSE
             ELSE IF decision.err = ValueError_Active THEN TRUE ELSE busy_failed
      /\ last' = Call(op, current_protector, value, decision.err,
                      IF decision.err = NoError THEN ok ELSE failed, FALSE, busy_failed)
      /\ installed' =
           IF decision.err = NoError
             THEN value
             ELSE IF nested.err = NoError THEN inner ELSE installed
      /\ slot_writes' = (IF nested.replace THEN 1 ELSE 0)
                          + (IF decision.replace THEN 1 ELSE 0)
      /\ UNCHANGED <<num_active_protections, protected_objects_dict, owned_refs, net_calls>>

\* AbstractGCProtector.default = value, subclass instances included; `inner' is
\* what the getter of a hooked protector assigns.  A protector the module state
\* has released more often than it took it is a dangling object: it is not
\* passed to the setter again.
GCProtectorMeta_set_default_subclass(value, inner) ==
  /\ \A p \in {value, inner} \cap AllProtectors : default_refs[p] >= 0
  /\ IF default_protector \in HookedProtectors /\ ReadsCount(value, default_protector)
       THEN SetDefaultReentrant("default=", value, inner, <<"0">>, <<"-1">>)
       ELSE /\ inner = default_protector
            /\ SetDefault("default=", value, <<"0">>, <<"-1">>)

\* the default property with subclass instances, the subclass's own methods, and
\* the methods of the protector that is the default initially
NextSubclass ==
  \/ \E self \in FastProtectors, object \in Arguments :
        FastGCProtector_protect(self, object)
  \/ \E self \in FastProtectors, object \in Arguments :
        FastGCProtector_unprotect(self, object)
  \/ \E self \in CustomProtectors, object \in Arguments :
        CustomProtector_protect(self, object)
  \/ \E self \in CustomProtectors, object \in Arguments :
        CustomProtector_unprotect(self, object)
  \/ GCProtectorMeta_get_default
  \/ \E value \in Values \cup SubclassProtectors, inner \in AllProtectors :
        GCProtectorMeta_set_default_subclass(value, inner)

SpecSubclass == Init /\ [][NextSubclass]_vars

(* ------------------------------------------------------------------ *)
(* Calls of the query properties and of get_num_object_protections     *)
(* ------------------------------------------------------------------ *)

\* PyInt_FromLong: the integer object a query returns
PyInt_FromLong(n) == <<"int", n>>

\* a call that returns `ret' and assigns to nothing
QueryCall(op, self, arg, ret) ==
  /\ last' = Call(op, self, arg, NoError, ret, FALSE, FALSE)
  /\ slot_writes' = 0
  /\ UNCHANGED <<default_protector, default_refs, num_active_protections,
                 protected_objects_dict, owned_refs, net_calls, busy_failed, installed>>

\* the num_active_protections property of a FastGCProtector
Call_FastGCProtector_get_num_active_protections(self) ==
  /\ self \in FastProtectors
  /\ QueryCall("num_active_protections", self, Nothing,
               PyInt_FromLong(FastGCProtector_get_num_active_protections(self)))

\* mutant: the lookup enters the object with count 0 when it is no key
Call_RaisingGCProtector_get_num_object_protections_Inserts(self, object) ==
  /\ self \in AccountingProtectors
  /\ last' = Call("get_num_object_protections", self, object, NoError,
                  PyInt_FromLong(RaisingGCProtector_get_num_object_protections(self, object)),
                  FALSE, FALSE)
  /\ protected_objects_dict' =
       [protected_objects_dict EXCEPT ![self] =
          IF PyLong_FromVoidPtr(object) \in DOMAIN @
            THEN @
            ELSE PyDict_SetItem(@, PyLong_FromVoidPtr(object), 0)]
  /\ slot_writes' = 0
  /\ UNCHANGED <<default_protector, default_refs, num_active_protections,
                 owned_refs, net_calls, busy_failed, installed>>

\* get_num_object_protections (object) of a Raising or Debug protector
Call_RaisingGCProtector_get_num_object_protections(self, object) ==
  /\ self \in AccountingProtectors
  /\ QueryCall("get_num_object_protections", self, object,
               PyInt_FromLong(RaisingGCProtector_get_num_object_protections(self, object)))

\* the num_protected_objects property of a Raising or Debug protector
Call_RaisingGCProtector_get_num_protected_objects(self) ==
  /\ self \in AccountingProtectors
  /\ QueryCall("num_protected_objects", self, Nothing,
               PyInt_FromLong(RaisingGCProtector_get_num_protected_objects(self)))

\* the num_active_protections property of a Raising or Debug protector
Call_RaisingGCProtector_get_num_active_protections(self) ==
  /\ self \in AccountingProtectors
  /\ QueryCall("num_active_protections", self, Nothing,
               PyInt_FromLong(RaisingGCProtector_get_num_active_protections(self)))

\* the calls of Next and the queries
NextQuery ==
  \/ Next
  \/ \E self \in FastProtectors :
        Call_FastGCProtector_get_num_active_protections(self)
  \/ \E self \in AccountingProtectors, object \in Arguments :
        Call_RaisingGCProtector_get_num_object_protections(self, object)
  \/ \E self \in AccountingProtectors :
        Call_RaisingGCProtector_get_num_protected_objects(self)
  \/ \E self \in AccountingProtectors :
        Call_RaisingGCProtector_get_num_active_protections(self)

SpecQuery == Init /\ [][NextQuery]_vars

(* ------------------------------------------------------------------ *)
(* The same calls made on a Fast, a Raising and a Debug protector      *)
(* ------------------------------------------------------------------ *)

\* what protect (object) does to the protector p, by the type of p
ProtectEffect(p, object) ==
  IF p \in FastProtectors
    THEN FastGCProtector_protect_effect(num_active_protections[p], object)
    ELSE RaisingGCProtector_protect_effect(num_active_protections[p],
                                           protected_objects_dict[p], object)

\* what unprotect (object) does to the protector p, by the type of p
UnprotectEffect(p, object) ==
  CASE p \in FastProtectors ->
         FastGCProtector_unprotect_effect(num_active_protections[p], object)
    [] p \in RaisingProtectors ->
         RaisingGCProtector_unprotect_effect(p, num_active_protections[p],
                                             protected_objects_dict[p], object)
    [] p \in DebugProtectors ->
         DebugGCProtector_unprotect_effect(p, num_active_protections[p],
                                           protected_objects_dict[p], object)

\* one call made on every counting protector: each instance stores the effect of
\* its own method; the record of the call holds the outcome per protector
SideBySide(op, object, eff) ==
  /\ num_active_protections' = [p \in CountingProtectors |-> eff[p].num]
  /\ protected_objects_dict' = [p \in AccountingProtectors |-> eff[p].dict]
  /\ owned_refs' =
       [p \in DOMAIN owned_refs |->
          IF p \in CountingProtectors
            THEN [owned_refs[p] EXCEPT ![object] = @ + eff[p].refs]
            ELSE owned_refs[p]]
  /\ net_calls' =
       [p \in CountingProtectors |->
          IF object # Py_None
            THEN [net_calls[p] EXCEPT ![object] = @ + Counted(op, object, eff[p])]
            ELSE net_calls[p]]
  /\ last' = Call(op, "side by side", object,
                  [p \in CountingProtectors |-> eff[p].err],
                  [p \in CountingProtectors |-> eff[p].ret],
                  [p \in CountingProtectors |-> eff[p].diag], FALSE)
  /\ slot_writes' = 0
  /\ UNCHANGED <<default_protector, default_refs, busy_failed, installed>>

SideBySide_protect(object) ==
  /\ object # Py_None => \A p \in CountingProtectors : num_active_protections[p] < MaxSideBySide
  /\ SideBySide("protect", object,
                [p \in CountingProtectors |-> ProtectEffect(p, object)])

SideBySide_unprotect(object) ==
  /\ object # Py_None => \A p \in FastProtectors : owned_refs[p][object] > - MaxDeficit
  /\ SideBySide("unprotect", object,
                [p \in CountingProtectors |-> UnprotectEffect(p, object)])

NextSideBySide ==
  \/ \E object \in Arguments : SideBySide_protect(object)
  \/ \E object \in Arguments : SideBySide_unprotect(object)

SpecSideBySide == Init /\ [][NextSideBySide]_vars

(* ------------------------------------------------------------------ *)
(* The 2007 revision of the module (second half of gc.c)               *)
(* ------------------------------------------------------------------ *)

\* the types of the 2007 revision: AbstractGCProtector and FastGCProtector
Protectors_2007 == FastProtectors \cup AbstractProtectors
Values_2007     == Protectors_2007 \cup PlainValues

\* FastGCProtector_protect of the 2007 revision: no test for None
FastGCProtector_protect_effect_2007(num, object) ==
  Effect(num + 1, EmptyDict, 1, NoError, <<object>>, FALSE)

\* FastGCProtector_unprotect of the 2007 revision: Py_XDECREF, then a reference
\* of its own for the return
FastGCProtector_unprotect_effect_2007(num, object) ==
  Effect(num - 1, EmptyDict, -1, NoError, <<object>>, FALSE)

FastGCProtector_protect_2007(self, object) ==
  /\ self \in FastProtectors
  /\ num_active_protections[self] < MaxProt
  /\ Apply("protect", self, object,
           FastGCProtector_protect_effect_2007(num_active_protections[self], object))

FastGCProtector_unprotect_2007(self, object) ==
  /\ self \in FastProtectors
  /\ owned_refs[self][object] > - MaxDeficit
  /\ Apply("unprotect", self, object,
           FastGCProtector_unprotect_effect_2007(num_active_protections[self], object))

\* AbstractGCProtector_set_default of the 2007 revision: after the "O!" check
\* the protector is stored in the type's dictionary under "default"; the
\* dictionary takes a reference on the new value and releases the old one
AbstractGCProtector_set_default_2007(new_protector) ==
  IF PyArg_IsAbstractGCProtector(new_protector)
    THEN /\ default_protector' = new_protector
         /\ default_refs' = [default_refs EXCEPT ![new_protector] = @ + 1,
                                                 ![default_protector] = @ - 1]
         /\ busy_failed' = FALSE
         /\ installed' = new_protector
         /\ slot_writes' = 1
         /\ last' = Call("set_default", default_protector, new_protector,
                         NoError, <<Py_None>>, FALSE, busy_failed)
         /\ UNCHANGED <<num_active_protections, protected_objects_dict,
                        owned_refs, net_calls>>
    ELSE /\ last' = Call("set_default", default_protector, new_protector,
                         TypeError_Argument, NULL, FALSE, busy_failed)
         /\ slot_writes' = 0
         /\ UNCHANGED <<default_protector, default_refs, num_active_protections,
                        protected_objects_dict, owned_refs, net_calls, busy_failed, installed>>

Next_2007 ==
  \/ \E self \in FastProtectors, object \in Arguments :
        FastGCProtector_protect_2007(self, object)
  \/ \E self \in FastProtectors, object \in Arguments :
        FastGCProtector_unprotect_2007(self, object)
  \/ \E self \in AbstractProtectors, object \in Arguments :
        AbstractGCProtector_protect(self, object)
  \/ \E self \in AbstractProtectors, object \in Arguments :
        AbstractGCProtector_unprotect(self, object)
  \/ \E value \in Values_2007 : AbstractGCProtector_set_default_2007(value)

\* initgc of the 2007 revision stores a new FastGCProtector as the default
Spec_2007 == Init /\ [][Next_2007]_vars

(* ------------------------------------------------------------------ *)
(* Properties of the default protector                                 *)
(* ------------------------------------------------------------------ *)

\* the two ways of installing a default protector
SetDefaultOps == {"default=", "set_default"}

\* the step just taken is a call that installs a default protector
SetDefaultStep == last'.op \in SetDefaultOps

\* the protector has a num_active_protections attribute, and it is not zero
HasActiveProtections(p) ==
  p \in CountingProtectors /\ num_active_protections[p] # 0

\* C1: the default protector changes only in a step that installs a default
\* protector, and only when the outgoing protector's num_active_protections
\* is zero; a protector whose count is not zero is never replaced.
C1_ReplacedOnlyWhenIdle ==
  [][default_protector' # default_protector =>
       /\ SetDefaultStep
       /\ ~ HasActiveProtections(default_protector)]_vars

\* C1 witness: a counting protector has been replaced by the call just made
C1_Witness ==
  /\ last.op \in SetDefaultOps
  /\ last.self \in CountingProtectors
  /\ last.self # default_protector
  /\ last.arg = default_protector

\* C2 as stated: every set_default, whatever its argument, ends with the
\* active-protections error when the installed protector's count is not zero.
C2_BusyForEveryArgument ==
  [][SetDefaultStep /\ HasActiveProtections(default_protector) =>
       last'.err = ValueError_Active]_vars

\* C2 amended: set_default of a protector other than the installed one ends with
\* the active-protections error when the installed protector's count is not zero,
\* and leaves the installed protector in place.
C2_BusyForOtherProtector ==
  [][/\ SetDefaultStep
     /\ HasActiveProtections(default_protector)
     /\ last'.arg \in Protectors \ {default_protector}
     => /\ last'.err = ValueError_Active
        /\ default_protector' = default_protector]_vars

\* C2 witness: a set_default of another protector was refused, the installed
\* protector having active protections
C2_Witness ==
  /\ last.op \in SetDefaultOps
  /\ last.err = ValueError_Active
  /\ last.arg \in Protectors \ {default_protector}
  /\ HasActiveProtections(default_protector)

\* the protector owns no reference to any object
OwnsNothing(p) == \A o \in Objects : owned_refs[p][o] = 0

\* C3 as stated: whenever a counting protector is replaced as the default, it
\* owns no reference to any object, after any calls of protect and unprotect.
C3_ReplacedOwnsNothing ==
  [][/\ default_protector' # default_protector
     /\ default_protector \in CountingProtectors
     => OwnsNothing(default_protector)]_vars

\* on this protector no object has more unprotect calls than protect calls
NoObjectOverUnprotected(p) == \A o \in Objects : net_calls[p][o] >= 0

\* C3 amended: a replaced Raising or Debug protector owns no reference to any
\* object; a replaced Fast protector owns none provided that no object has been
\* unprotected on it more often than protected.
C3_ReplacedOwnsNothingUnlessMisused ==
  [][/\ default_protector' # default_protector
     /\ default_protector \in CountingProtectors
     /\ (default_protector \in FastProtectors =>
           NoObjectOverUnprotected(default_protector))
     => OwnsNothing(default_protector)]_vars

\* C3 witness: a protector that was used (it is named by a refused set_default
\* made before) has been replaced
C3_Witness ==
  /\ last.op \in SetDefaultOps
  /\ last.retry
  /\ last.self \in CountingProtectors
  /\ last.self # default_protector
  /\ OwnsNothing(last.self)

\* every protect call on the protector has been matched by an unprotect call
AllReleased(p) == \A o \in Objects : net_calls[p][o] = 0

\* C4: after a set_default was refused for active protections, once every
\* protection of the installed protector has been released by a matching
\* unprotect, set_default of a protector succeeds and installs it, and
\* get_default returns the installed protector.
C4_BusyIsRecoverable ==
  [][/\ (/\ SetDefaultStep
          /\ busy_failed
          /\ default_protector \in CountingProtectors
          /\ AllReleased(default_protector)
          /\ last'.arg \in Protectors
          => /\ last'.err = NoError
             /\ default_protector' = last'.arg)
     /\ (last'.op = "get_default" => last'.ret = <<default_protector>>)]_vars

\* C4 witness: the set_default made after a refusal has replaced the protector
C4_Witness ==
  /\ last.op \in SetDefaultOps
  /\ last.retry
  /\ last.err = NoError
  /\ last.self # default_protector
  /\ last.arg = default_protector
  /\ AllReleased(last.self)

\* C5: a set_default changes no protector's dictionary, counter or owned
\* references, whether it succeeds or fails; when it fails the default
\* protector stays, and get_default returns it.
C5_SetDefaultFrame ==
  [][/\ (SetDefaultStep =>
            /\ UNCHANGED <<num_active_protections, protected_objects_dict, owned_refs>>
            /\ (last'.err # NoError => default_protector' = default_protector))
     /\ (last'.op = "get_default" =>
            /\ last'.ret = <<default_protector>>
            /\ default_protector' = default_protector)]_vars

\* C5 witness: a set_default failed while a protector holds protections
C5_Witness ==
  /\ last.op \in SetDefaultOps
  /\ last.err # NoError
  /\ \E p \in AccountingProtectors : protected_objects_dict[p] # EmptyDict

\* the errors that tell the caller that the value is no protector
InvalidProtectorErrors == {ValueError_NotProtector, TypeError_Argument}

\* C6: a set_default of a value that is not an instance of AbstractGCProtector
\* fails with the invalid-protector error in every state, and the default
\* protector stays.
C6_InvalidProtectorRefused ==
  [][SetDefaultStep /\ PyObject_IsInstance(last'.arg) = 0 =>
       /\ last'.err \in InvalidProtectorErrors
       /\ default_protector' = default_protector]_vars

\* C6 witness: a value that is no protector was refused while the installed
\* protector had no active protections, so that a protector would have been accepted
C6_Witness ==
  /\ last.op = "default="
  /\ last.arg \in PlainValues
  /\ last.err = ValueError_NotProtector
  /\ ~ HasActiveProtections(default_protector)

(* ------------------------------------------------------------------ *)
(* Properties of the accounting protectors                             *)
(* ------------------------------------------------------------------ *)

\* the step just taken is a call of unprotect on `self' with a real object
UnprotectStep(self, object) ==
  /\ last'.op = "unprotect"
  /\ last'.self = self
  /\ last'.arg = object

\* C7: on a Raising or Debug protector the number of protections of an object
\* is the number of protect calls for it minus the number of successful
\* unprotect calls for it.
C7_CountIsProtectsMinusUnprotects ==
  \A p \in AccountingProtectors, o \in Objects :
    RaisingGCProtector_get_num_object_protections(p, o) = net_calls[p][o]

\* C7 witness: an object has just been protected for the second time
C7_Witness ==
  /\ last.op = "protect"
  /\ last.self \in AccountingProtectors
  /\ last.arg \in Objects
  /\ net_calls[last.self][last.arg] = 2
  /\ RaisingGCProtector_get_num_object_protections(last.self, last.arg) = 2

\* the call just made met an object that is not protected
NotProtectedCondition(call) ==
  IF call.self \in DebugProtectors
    THEN call.diag
    ELSE call.err = UnprotectionError(call.self)

\* C8: while an object has protect calls not yet matched, unprotect returns the
\* object without error and takes one protection away, so that the n-th
\* unprotect after n protects leaves count 0; the unprotect after that meets
\* the not-protected condition.
C8_UnprotectMatchesProtect ==
  [][\A p \in AccountingProtectors, o \in Objects :
       UnprotectStep(p, o) =>
         IF net_calls[p][o] >= 1
           THEN /\ last'.err = NoError
                /\ last'.ret = <<o>>
                /\ ~ NotProtectedCondition(last')
                /\ RaisingGCProtector_get_num_object_protections(p, o)' = net_calls[p][o] - 1
           ELSE NotProtectedCondition(last')]_vars

\* C8 witness: the unprotect just made took the last protection of an object
\* that was protected on this protector
C8_Witness ==
  /\ last.op = "unprotect"
  /\ last.self \in AccountingProtectors
  /\ last.arg \in Objects
  /\ last.err = NoError /\ ~ last.diag
  /\ RaisingGCProtector_get_num_object_protections(last.self, last.arg) = 0

\* C9: on a Raising protector, unprotect of an object with no recorded
\* protection raises UnprotectionError naming the protector's type and changes
\* neither the dictionary, nor the counter, nor the owned references.
C9_RaisingUnprotectError ==
  [][\A p \in RaisingProtectors, o \in Objects :
       /\ UnprotectStep(p, o)
       /\ RaisingGCProtector_get_num_object_protections(p, o) = 0
       => /\ last'.err = [type |-> "UnprotectionError", detail |-> "RaisingGCProtector"]
          /\ last'.ret = NULL
          /\ UNCHANGED <<num_active_protections, protected_objects_dict, owned_refs>>]_vars

\* C9 witness: the error was raised by a protector that protects another object
C9_Witness ==
  /\ last.op = "unprotect"
  /\ last.self \in RaisingProtectors
  /\ last.err.type = "UnprotectionError"
  /\ num_active_protections[last.self] > 0

\* C10: on a Debug protector unprotect never raises and returns its argument;
\* for an object with no recorded protection the error is printed and cleared
\* and the dictionary, the counter and the owned references stay as they are.
C10_DebugUnprotectAbsorbs ==
  [][\A p \in DebugProtectors, o \in Arguments :
       UnprotectStep(p, o) =>
         /\ last'.err = NoError
         /\ last'.ret = <<o>>
         /\ (o \in Objects /\ RaisingGCProtector_get_num_object_protections(p, o) = 0 =>
               /\ last'.diag
               /\ UNCHANGED <<num_active_protections, protected_objects_dict, owned_refs>>)]_vars

\* C10 witness: a diagnostic was printed by a protector that protects another object
C10_Witness ==
  /\ last.op = "unprotect"
  /\ last.self \in DebugProtectors
  /\ last.diag
  /\ last.ret = <<last.arg>>
  /\ num_active_protections[last.self] > 0

(* ------------------------------------------------------------------ *)
(* C11: None passes through protect and unprotect                     *)
(* ------------------------------------------------------------------ *)

\* a protect or unprotect call on a Fast, Raising or Debug protector
ProtectOps == {"protect", "unprotect"}

\* the Raising and Debug protectors report no protection of None
NoneIsNeverProtected ==
  \A p \in AccountingProtectors :
    RaisingGCProtector_get_num_object_protections(p, Py_None) = 0

\* C11: on a Fast, Raising or Debug protector, protect(None) and unprotect(None)
\* return None, raise nothing, print nothing and leave the count, the dictionary
\* and the references owned unchanged; the number of protections of None is 0
\* in every state.
C11_NonePassesThrough ==
  [][ /\ NoneIsNeverProtected
      /\ NoneIsNeverProtected'
      /\ (/\ last'.op \in ProtectOps
          /\ last'.self \in CountingProtectors
          /\ last'.arg = Py_None)
         => /\ last'.err = NoError
            /\ last'.ret = <<Py_None>>
            /\ ~ last'.diag
            /\ UNCHANGED <<num_active_protections, protected_objects_dict, owned_refs>> ]_vars

\* C11 witness: unprotect(None) returned None on a Raising or Debug protector
\* that holds no protection at all, and on one that holds a protection.
C11_Witness ==
  /\ last.op = "unprotect"
  /\ last.arg = Py_None
  /\ last.self \in AccountingProtectors
  /\ last.ret = <<Py_None>>
  /\ num_active_protections[last.self] = 0
  /\ \E p \in CountingProtectors : num_active_protections[p] > 0

(* ------------------------------------------------------------------ *)
(* C12: num_protected_objects counts the objects, not the calls       *)
(* ------------------------------------------------------------------ *)

\* the objects that have been protected more often than unprotected
CurrentlyProtected(p) == {o \in Objects : net_calls[p][o] >= 1}

\* C12: on a Raising or Debug protector num_protected_objects is the number of
\* distinct objects whose protections outnumber their successful unprotections,
\* however many times each of them was protected.
C12_NumProtectedObjectsIsDistinct ==
  \A p \in AccountingProtectors :
    RaisingGCProtector_get_num_protected_objects(p) = Cardinality(CurrentlyProtected(p))

\* C12 witness: one object was protected MaxProt times in a row on a protector
\* that protects nothing else: one protected object, MaxProt protections.
C12_Witness ==
  /\ last.op = "protect"
  /\ last.self \in AccountingProtectors
  /\ last.arg \in Objects
  /\ net_calls[last.self][last.arg] = MaxProt
  /\ MaxProt >= 2
  /\ RaisingGCProtector_get_num_protected_objects(last.self) = 1
  /\ RaisingGCProtector_get_num_active_protections(last.self) = MaxProt

(* ------------------------------------------------------------------ *)
(* C13: the keys of the dictionary are the protected objects          *)
(* ------------------------------------------------------------------ *)

\* the object id is a key of the protector's dictionary
IsKey(p, o) == PyLong_FromVoidPtr(o) \in DOMAIN protected_objects_dict[p]

\* C13: in the dictionary of a Raising or Debug protector every key has a count
\* of at least 1, and an object is a key exactly when its protections outnumber
\* its successful unprotections; an unprotect that takes the last protection
\* away leaves no key behind.
C13_KeyIffProtected ==
  \A p \in AccountingProtectors :
    /\ \A id \in DOMAIN protected_objects_dict[p] : protected_objects_dict[p][id] >= 1
    /\ \A o \in Objects :
         /\ IsKey(p, o) <=> net_calls[p][o] > 0
         /\ IsKey(p, o) <=> RaisingGCProtector_get_num_object_protections(p, o) > 0

\* C13 witness: an unprotect took the last protection of an object away and its
\* key is gone, while the key of another object, still protected, is present.
C13_Witness ==
  /\ last.op = "unprotect"
  /\ last.self \in AccountingProtectors
  /\ last.arg \in Objects
  /\ last.err = NoError
  /\ ~ last.diag
  /\ ~ IsKey(last.self, last.arg)
  /\ \E o \in Objects \ {last.arg} : IsKey(last.self, o)

(* ------------------------------------------------------------------ *)
(* C14: num_active_protections is the sum of the per-object counts    *)
(* ------------------------------------------------------------------ *)

\* the sum of f[x] over the elements x of S
RECURSIVE SumOver(_, _)
SumOver(f, S) ==
  IF S = {}
    THEN 0
    ELSE LET x == CHOOSE y \in S : TRUE
         IN  f[x] + SumOver(f, S \ {x})

\* the number of protections of every argument, as the protector reports it
NumObjectProtections(p) ==
  [o \in Arguments |-> RaisingGCProtector_get_num_object_protections(p, o)]

\* C14: on a Raising or Debug protector num_active_protections is the sum of
\* get_num_object_protections over all objects; it is never negative, and it is
\* zero exactly when the dictionary is empty.
C14_ActiveIsSumOfCounts ==
  \A p \in AccountingProtectors :
    /\ RaisingGCProtector_get_num_active_protections(p)
         = SumOver(NumObjectProtections(p), Arguments)
    /\ RaisingGCProtector_get_num_active_protections(p) >= 0
    /\ RaisingGCProtector_get_num_active_protections(p) = 0
         <=> protected_objects_dict[p] = EmptyDict

\* C14 witness: a protector holds two protections of one object after an
\* unprotect call on another object that failed or was absorbed.
C14_Witness ==
  /\ last.op = "unprotect"
  /\ last.self \in AccountingProtectors
  /\ last.arg \in Objects
  /\ last.err # NoError \/ last.diag
  /\ \E o \in Objects \ {last.arg} :
       RaisingGCProtector_get_num_object_protections(last.self, o) = 2
  /\ RaisingGCProtector_get_num_active_protections(last.self) = 2

(* ------------------------------------------------------------------ *)
(* C15: one reference owned for every protection                      *)
(* ------------------------------------------------------------------ *)

\* the protector owns as many references on every object as it reports
\* protections of it
RefsMatchProtections ==
  \A p \in AccountingProtectors : \A o \in Objects :
    owned_refs[p][o] = RaisingGCProtector_get_num_object_protections(p, o)

\* C15: a Raising or Debug protector owns exactly as many references on an
\* object as get_num_object_protections reports for it (so none exactly when
\* the count is 0): a protect takes one, an unprotect that succeeds gives one
\* back, and an unprotect that fails or is absorbed gives none back.
C15_OneReferencePerProtection ==
  [][ /\ RefsMatchProtections
      /\ RefsMatchProtections'
      /\ \A p \in AccountingProtectors : \A o \in Objects :
           (last'.op \in ProtectOps /\ last'.self = p /\ last'.arg = o)
           => owned_refs'[p][o] - owned_refs[p][o]
                = IF last'.op = "protect"
                    THEN 1
                    ELSE IF last'.err # NoError \/ last'.diag THEN 0 ELSE -1 ]_vars

\* C15 witness: a Debug protector absorbed an unprotect of an object it does not
\* protect, owns no reference on it and still owns the reference of the object
\* it does protect.
C15_Witness ==
  /\ last.op = "unprotect"
  /\ last.self \in DebugProtectors
  /\ last.arg \in Objects
  /\ last.diag
  /\ owned_refs[last.self][last.arg] = 0
  /\ \E o \in Objects \ {last.arg} :
       /\ owned_refs[last.self][o] = 1
       /\ RaisingGCProtector_get_num_object_protections(last.self, o) = 1

(* ------------------------------------------------------------------ *)
(* C16: balanced protect and unprotect calls on one object            *)
(* ------------------------------------------------------------------ *)

\* a call on (p, o) that keeps the run balanced: a protect, or an unprotect made
\* while the protections of o outnumber its unprotections
BalancedStep(p, o) ==
  /\ last'.op \in ProtectOps
  /\ last'.self = p
  /\ last'.arg = o
  /\ last'.op = "unprotect" => net_calls[p][o] >= 1

\* C16: on a Raising or Debug protector, a protect, and an unprotect made while
\* the protections of the object outnumber its unprotections, complete without
\* error and without diagnostic and move the balance by one; whenever the
\* balance of an object is back at 0 its count is 0 and its key is absent.
\* By induction every run of k protects and k unprotects on one object whose
\* prefixes never hold more unprotects than protects ends so, without error.
C16_BalancedCallsNeverFail ==
  [][ \A p \in AccountingProtectors : \A o \in Objects :
        /\ BalancedStep(p, o)
           => /\ last'.err = NoError
              /\ ~ last'.diag
              /\ last'.ret = <<o>>
              /\ net_calls'[p][o]
                   = net_calls[p][o] + (IF last'.op = "protect" THEN 1 ELSE -1)
        /\ net_calls'[p][o] = 0
           => /\ RaisingGCProtector_get_num_object_protections(p, o)' = 0
              /\ ~ IsKey(p, o)' ]_vars

\* C16 witness: an unprotect that brought the balance of its object back to 0
\* returned without error: the count of the object is 0 and the protector is
\* empty.
C16_Witness ==
  /\ last.op = "unprotect"
  /\ last.self \in AccountingProtectors
  /\ last.arg \in Objects
  /\ last.err = NoError
  /\ ~ last.diag
  /\ net_calls[last.self][last.arg] = 0
  /\ RaisingGCProtector_get_num_object_protections(last.self, last.arg) = 0
  /\ protected_objects_dict[last.self] = EmptyDict
  /\ RaisingGCProtector_get_num_active_protections(last.self) = 0

(* ------------------------------------------------------------------ *)
(* C17: FastGCProtector does not detect a wrong unprotect             *)
(* ------------------------------------------------------------------ *)

\* C17: on a Fast protector, unprotect of an object other than None that has not
\* been protected more often than unprotected raises nothing, prints nothing,
\* returns the object and decrements num_active_protections by 1, below zero
\* too.
C17_FastUnprotectUnchecked ==
  [][ \A p \in FastProtectors : \A o \in Objects :
        (UnprotectStep(p, o) /\ net_calls[p][o] <= 0)
        => /\ last'.err = NoError
           /\ ~ last'.diag
           /\ last'.ret = <<o>>
           /\ num_active_protections'[p] = num_active_protections[p] - 1 ]_vars

\* C17 witness: a Fast protector that held no protection returned from an
\* unprotect and its count is negative.
C17_Witness ==
  /\ last.op = "unprotect"
  /\ last.self \in FastProtectors
  /\ last.arg \in Objects
  /\ last.err = NoError
  /\ FastGCProtector_get_num_active_protections(last.self) < 0
  /\ net_calls[last.self][last.arg] < 0

(* ------------------------------------------------------------------ *)
(* C18: FastGCProtector counts calls                                  *)
(* ------------------------------------------------------------------ *)

\* the count of a Fast protector is the number of its protect calls minus the
\* number of its unprotect calls, None not counted
FastCountIsCallBalance ==
  \A p \in FastProtectors :
    FastGCProtector_get_num_active_protections(p) = SumOver(net_calls[p], Objects)

\* C18: the count of a Fast protector is the number of protect calls on objects
\* other than None minus the number of unprotect calls on objects other than
\* None; every protect and unprotect returns its argument without error, a
\* protect of an object takes one reference on it and an unprotect of an object
\* gives one back.
C18_FastCountsCalls ==
  [][ /\ FastCountIsCallBalance
      /\ FastCountIsCallBalance'
      /\ \A p \in FastProtectors : \A o \in Arguments :
           (last'.op \in ProtectOps /\ last'.self = p /\ last'.arg = o)
           => /\ last'.err = NoError
              /\ last'.ret = <<o>>
              /\ o \in Objects
                 => LET d == IF last'.op = "protect" THEN 1 ELSE -1
                    IN  /\ owned_refs'[p][o] = owned_refs[p][o] + d
                        /\ net_calls'[p][o] = net_calls[p][o] + d
                        /\ num_active_protections'[p] = num_active_protections[p] + d ]_vars

\* C18 witness: a Fast protector returned from an unprotect after two protects:
\* its count is 1 and it owns one reference.
C18_Witness ==
  /\ last.op = "unprotect"
  /\ last.self \in FastProtectors
  /\ last.arg \in Objects
  /\ last.ret = <<last.arg>>
  /\ FastGCProtector_get_num_active_protections(last.self) = 1
  /\ SumOver(owned_refs[last.self], Objects) = 1
  /\ owned_refs[last.self][last.arg] >= 0

(* ------------------------------------------------------------------ *)
(* C19: protect of a Raising or Debug protector                       *)
(* ------------------------------------------------------------------ *)

\* the step just taken is a call of protect on `self' with `object'
ProtectStep(self, object) ==
  /\ last'.op = "protect"
  /\ last'.self = self
  /\ last'.arg = object

C20_DefaultIsLastInstalled ==
  /\ default_protector \in Protectors
  /\ default_refs[default_protector] = 1
  /\ default_protector = installed
  /\ last.op = "init"
     => /\ default_protector \in FastProtectors
        /\ FastGCProtector_get_num_active_protections(default_protector) = 0
  /\ last.op = "get_default"
     => /\ last.err = NoError
        /\ last.ret = <<installed>>

\* C20 witness: get_default returned a protector that is not the initial Fast
\* protector, after a set_default that succeeded.
C20_Witness ==
  /\ last.op = "get_default"
  /\ last.ret = <<installed>>
  /\ installed \notin FastProtectors
  /\ default_refs[installed] = 1

(* ------------------------------------------------------------------ *)
(* C21: the replacement of the default protector is one store         *)
(* ------------------------------------------------------------------ *)

\* the call just made replaced the default protector
ReplacingStep ==
  /\ SetDefaultStep
  /\ last'.err = NoError
  /\ last'.arg # last'.self

\* C21: a set_default that succeeds in replacing the default protector replaces
\* the protector it found installed and whose count it read: in the whole call
\* the slot is stored once, also when code runs while the count is read, the
\* module state gives back one reference on the old protector and takes one on
\* the new one, and no other reference of the module state changes.
C21_ReplacementIsAtomic ==
  [][ ReplacingStep
      => /\ last'.self = default_protector
         /\ default_protector' = last'.arg
         /\ slot_writes' = 1
         /\ default_refs' = [default_refs EXCEPT ![last'.self] = @ - 1,
                                                 ![last'.arg]  = @ + 1] ]_vars

(* ------------------------------------------------------------------ *)
(* C22: the queries change nothing                                    *)
(* ------------------------------------------------------------------ *)

QueryOps == {"num_active_protections", "get_num_object_protections", "num_protected_objects"}

\* C22: num_active_protections, get_num_object_protections and
\* num_protected_objects raise nothing and leave the dictionary, the counter,
\* the references owned and the default protector as they are;
\* get_num_object_protections returns 0 for None and for every object whose
\* protections do not outnumber its successful unprotections, and the count of
\* the object otherwise.
C22_QueriesAreSideEffectFree ==
  [][ last'.op \in QueryOps
      => /\ last'.err = NoError
         /\ ~ last'.diag
         /\ UNCHANGED <<num_active_protections, protected_objects_dict, owned_refs,
                        default_protector, default_refs>>
         /\ last'.op = "num_active_protections"
            => last'.ret = PyInt_FromLong(num_active_protections[last'.self])
         /\ last'.op = "num_protected_objects"
            => last'.ret = PyInt_FromLong(Cardinality(CurrentlyProtected(last'.self)))
         /\ last'.op = "get_num_object_protections"
            => last'.ret = PyInt_FromLong(IF last'.arg \in Objects
                                            THEN net_calls[last'.self][last'.arg]
                                            ELSE 0) ]_vars

\* C22 witness: get_num_object_protections returned 0 for an object that is not
\* protected, on a protector that protects another object.
C22_Witness ==
  /\ last.op = "get_num_object_protections"
  /\ last.arg \in Objects
  /\ last.ret = PyInt_FromLong(0)
  /\ ~ IsKey(last.self, last.arg)
  /\ num_active_protections[last.self] > 0

(* ------------------------------------------------------------------ *)
(* C23: RaisingGCProtector and DebugGCProtector side by side          *)
(* ------------------------------------------------------------------ *)

\* the step just taken is one call made on every counting protector
SideBySideStep == last'.self = "side by side"

\* the Raising and the Debug protector are in the same state
SameAccountingState ==
  \A r \in RaisingProtectors, d \in DebugProtectors :
    /\ num_active_protections[r] = num_active_protections[d]
    /\ protected_objects_dict[r] = protected_objects_dict[d]
    /\ owned_refs[r] = owned_refs[d]

\* C23: after the same calls of protect and unprotect a Raising and a Debug
\* protector have equal dictionaries, equal counters and own the same
\* references; every call ends the same on both, except an unprotect of an
\* object with no protection recorded, which raises UnprotectionError on the
\* Raising protector and returns the object after a diagnostic on the Debug
\* protector.
C23_RaisingAndDebugAgree ==
  [][ SideBySideStep
      => /\ SameAccountingState
         /\ SameAccountingState'
         /\ \A r \in RaisingProtectors, d \in DebugProtectors :
              IF /\ last'.op = "unprotect"
                 /\ last'.arg \in Objects
                 /\ RaisingGCProtector_get_num_object_protections(r, last'.arg) = 0
                THEN /\ last'.err[r] = UnprotectionError(r)
                     /\ last'.ret[r] = NULL
                     /\ ~ last'.diag[r]
                     /\ last'.err[d] = NoError
                     /\ last'.ret[d] = <<last'.arg>>
                     /\ last'.diag[d]
                ELSE /\ last'.err[r] = last'.err[d]
                     /\ last'.ret[r] = last'.ret[d]
                     /\ last'.diag[r] = last'.diag[d] ]_vars

\* C23 witness: an unprotect of an unprotected object, made on both protectors
\* while they hold a protection of another object, raised on one and was
\* absorbed on the other, and their states are equal.
C23_Witness ==
  /\ last.self = "side by side"
  /\ last.op = "unprotect"
  /\ \E r \in RaisingProtectors, d \in DebugProtectors :
       /\ last.err[r] # NoError
       /\ last.diag[d]
       /\ num_active_protections[r] > 0
  /\ SameAccountingState

(* ------------------------------------------------------------------ *)
(* C24: FastGCProtector and the accounting protectors side by side    *)
(* ------------------------------------------------------------------ *)

\* so far no object has been unprotected more often than protected: the Fast
\* protector, which counts every call, and the accounting protectors, which
\* count the calls that succeeded, have the same call balance for every object
UsedCorrectly ==
  \A f \in FastProtectors, p \in AccountingProtectors, o \in Objects :
    net_calls[f][o] = net_calls[p][o]

\* the call just made unprotects an object that has had as many unprotect calls
\* as protect calls
WrongUnprotect ==
  /\ last'.op = "unprotect"
  /\ last'.arg \in Objects
  /\ \A f \in FastProtectors : net_calls[f][last'.arg] = 0

\* C24: as long as no object has been unprotected more often than protected, a
\* call made on a Fast, a Raising and a Debug protector returns its argument on
\* all three without error or diagnostic and leaves them with equal
\* num_active_protections; the first unprotect of an object with no protection
\* makes them differ: the Fast protector returns the object and counts one
\* protection less, the accounting protectors keep their count.
C24_FastAgreesUnderCorrectUse ==
  [][ (SideBySideStep /\ UsedCorrectly)
      => IF WrongUnprotect
           THEN /\ ~ UsedCorrectly'
                /\ \A f \in FastProtectors, p \in AccountingProtectors :
                     /\ last'.err[f] = NoError
                     /\ last'.ret[f] = <<last'.arg>>
                     /\ last'.err[p] # NoError \/ last'.diag[p]
                     /\ num_active_protections'[f] = num_active_protections[f] - 1
                     /\ num_active_protections'[p] = num_active_protections[p]
                     /\ num_active_protections'[f] # num_active_protections'[p]
           ELSE /\ UsedCorrectly'
                /\ \A p \in CountingProtectors :
                     /\ last'.err[p] = NoError
                     /\ last'.ret[p] = <<last'.arg>>
                     /\ ~ last'.diag[p]
                /\ \A f \in FastProtectors, p \in AccountingProtectors :
                     num_active_protections'[f] = num_active_protections'[p] ]_vars

\* C24 witness: after protections and an unprotection made correctly the three
\* protectors agree and still hold a protection; the unprotect just made
\* returned the object on all of them.
C24_Witness ==
  /\ last.self = "side by side"
  /\ last.op = "unprotect"
  /\ last.arg \in Objects
  /\ UsedCorrectly
  /\ \A p \in CountingProtectors :
       /\ last.err[p] = NoError
       /\ last.ret[p] = <<last.arg>>
       /\ ~ last.diag[p]
       /\ num_active_protections[p] = 1

(* ------------------------------------------------------------------ *)
(* C25: every way of installing a default protector is guarded        *)
(* ------------------------------------------------------------------ *)

\* C25: both AbstractGCProtector.set_default (protector) and the assignment to
\* AbstractGCProtector.default refuse a value that is no protector, and refuse
\* to replace a protector whose num_active_protections is not zero by another
\* one: the call ends with an error and the default protector stays; nothing
\* but these two calls changes the default protector.
C25_EveryEntryPointIsGuarded ==
  [][ /\ default_protector' # default_protector => SetDefaultStep
      /\ SetDefaultStep
         => /\ last'.arg \notin AllProtectors
               => /\ last'.err # NoError
                  /\ default_protector' = default_protector
            /\ (HasActiveProtections(default_protector) /\ last'.arg # default_protector)
               => /\ last'.err # NoError
                  /\ default_protector' = default_protector ]_vars

(* ------------------------------------------------------------------ *)
(* C26: installing the installed protector again                      *)
(* ------------------------------------------------------------------ *)

\* C26: a set_default whose argument is the protector installed already ends
\* without error, also when that protector has active protections, and changes
\* neither the default protector, nor the reference the module state holds on
\* it, nor any counter, dictionary or owned reference.
C26_SameInstanceIsNoOp ==
  [][ (SetDefaultStep /\ last'.arg = default_protector)
      => /\ last'.err = NoError
         /\ slot_writes' = 0
         /\ UNCHANGED <<default_protector, default_refs, num_active_protections,
                        protected_objects_dict, owned_refs>> ]_vars

\* C26 witness: the protector installed by the last successful call, which has
\* active protections, was passed to set_default again and no error came back.
C26_Witness ==
  /\ last.op \in SetDefaultOps
  /\ last.arg = default_protector
  /\ last.self = default_protector
  /\ last.err = NoError
  /\ HasActiveProtections(default_protector)
  /\ installed = default_protector

(* ------------------------------------------------------------------ *)
(* C27: the type of the value is tested before the active protections *)
(* ------------------------------------------------------------------ *)

\* C27: assigning a value that is no protector to AbstractGCProtector.default
\* ends with the error that says so, not with the active-protections error,
\* whatever the current protector's count is, and without reading that count:
\* the getter of a hooked protector is not run, so nothing is stored.
C27_TypeTestedBeforeCount ==
  [][ (SetDefaultStep /\ PyObject_IsInstance(last'.arg) = 0)
      => /\ last'.err = ValueError_NotProtector
         /\ last'.err # ValueError_Active
         /\ slot_writes' = 0
         /\ UNCHANGED <<default_protector, default_refs>> ]_vars

\* C27 witness: a plain value was refused as no protector while the current
\* protector has active protections.
C27_Witness ==
  /\ last.op \in SetDefaultOps
  /\ last.arg \in PlainValues
  /\ last.err = ValueError_NotProtector
  /\ last.self = default_protector
  /\ HasActiveProtections(default_protector)

(* ------------------------------------------------------------------ *)
(* C28: a current protector without num_active_protections            *)
(* ------------------------------------------------------------------ *)

\* C28: when the current protector has no num_active_protections attribute,
\* set_default of any other protector replaces it without error, whatever
\* number of objects the current protector holds references on.
C28_ReplacedWithoutCount ==
  [][ (/\ SetDefaultStep
       /\ GetAttr_num_active_protections(default_protector) = NULL
       /\ default_protector \notin HookedProtectors
       /\ PyObject_IsInstance(last'.arg) = 1
       /\ last'.arg # default_protector)
      => /\ last'.err = NoError
         /\ default_protector' = last'.arg
         /\ slot_writes' = 1 ]_vars

\* C28 witness: a subclass instance without num_active_protections that holds
\* references on objects has been replaced as the default protector.
C28_Witness ==
  /\ last.op \in SetDefaultOps
  /\ last.self \in CustomProtectors
  /\ last.err = NoError
  /\ default_protector = last.arg
  /\ default_protector # last.self
  /\ CustomHeld > 0

(* ------------------------------------------------------------------ *)
(* C29: the per-object frame of an accounting protector               *)
(* ------------------------------------------------------------------ *)

\* C29: on a raising or debug protector a protect(o) adds one to the count of
\* o, an unprotect(o) takes one from it when it is positive and leaves it at
\* zero otherwise, the sentinel changes nothing, the count of every other
\* object stays as it was, and an error or a diagnostic comes back exactly
\* from an unprotect of an object whose count is zero.
C29_PerObjectFrame ==
  [][ \A p \in AccountingProtectors : \A o \in Arguments :
        (last'.op \in ProtectOps /\ last'.self = p /\ last'.arg = o)
        => LET count_of(x)     == RaisingGCProtector_get_num_object_protections(p, x)
               count_of_new(x) == RaisingGCProtector_get_num_object_protections(p, x)'
               delta == CASE o = Py_None          -> 0
                          [] last'.op = "protect" -> 1
                          [] count_of(o) > 0      -> -1
                          [] OTHER                -> 0
           IN  /\ count_of_new(o) = count_of(o) + delta
               /\ \A x \in Arguments \ {o} : count_of_new(x) = count_of(x)
               /\ (last'.err # NoError \/ last'.diag)
                  <=> (last'.op = "unprotect" /\ o # Py_None /\ count_of(o) = 0)
               /\ last'.err # NoError
                  => (p \in RaisingProtectors /\ last'.err = UnprotectionError(p)) ]_vars

\* C29 witness: the last protection of one object was removed from an
\* accounting protector that still protects the other object.
C29_Witness ==
  /\ last.op = "unprotect"
  /\ last.self \in AccountingProtectors
  /\ last.arg \in Objects
  /\ last.err = NoError
  /\ ~ last.diag
  /\ RaisingGCProtector_get_num_object_protections(last.self, last.arg) = 0
  /\ \E x \in Objects \ {last.arg} :
       RaisingGCProtector_get_num_object_protections(last.self, x) = 1

(* ------------------------------------------------------------------ *)
(* C30: protector instances are independent                           *)
(* ------------------------------------------------------------------ *)

\* C30: a protect or unprotect on one protector leaves the counter, the
\* dictionary and the owned references of every other protector as they were;
\* an object whose protections were all made through other protectors has no
\* protection in a raising or debug protector, and unprotecting it there fails
\* on a raising protector; a set_default changes no counter and no dictionary.
C30_InstancesAreIndependent ==
  [][ /\ \A p \in CountingProtectors :
           (last'.op \in ProtectOps /\ last'.self = p)
           => \A q \in CountingProtectors \ {p} :
                /\ num_active_protections'[q] = num_active_protections[q]
                /\ owned_refs'[q] = owned_refs[q]
                /\ q \in AccountingProtectors
                   => protected_objects_dict'[q] = protected_objects_dict[q]
      /\ \A q \in AccountingProtectors : \A o \in Objects :
           net_calls[q][o] = 0
           => /\ RaisingGCProtector_get_num_object_protections(q, o) = 0
              /\ (/\ q \in RaisingProtectors
                  /\ last'.op = "unprotect" /\ last'.self = q /\ last'.arg = o)
                 => last'.err = UnprotectionError(q)
      /\ SetDefaultStep
         => UNCHANGED <<num_active_protections, protected_objects_dict, owned_refs>>
    ]_vars

\* C30 witness: unprotect of an object failed on the raising protector while
\* another protector holds a protection of that object.
C30_Witness ==
  /\ last.op = "unprotect"
  /\ last.self \in RaisingProtectors
  /\ last.arg \in Objects
  /\ last.err = UnprotectionError(last.self)
  /\ \E p \in CountingProtectors \ {last.self} : owned_refs[p][last.arg] > 0
  /\ num_active_protections[last.self] = 0

(* ------------------------------------------------------------------ *)
(* C31: when the Debug protector prints                                *)
(* ------------------------------------------------------------------ *)

\* C31: an unprotect on a Debug protector prints a diagnostic exactly when its
\* argument is not None and has no recorded protection: an unprotect that
\* removes a protection and an unprotect of None print nothing, every
\* unprotect of an unprotected object prints; no other call prints.
C31_DiagnosticIffNotProtected ==
  [][ /\ \A d \in DebugProtectors : \A o \in Arguments :
           (last'.op = "unprotect" /\ last'.self = d /\ last'.arg = o)
           => (last'.diag
               <=> (o # Py_None
                    /\ RaisingGCProtector_get_num_object_protections(d, o) = 0))
      /\ last'.diag => (last'.op = "unprotect" /\ last'.self \in DebugProtectors)
    ]_vars

\* C31 witness: a Debug protector that protects nothing printed a diagnostic
\* for an unprotect of an object.
C31_Witness ==
  /\ last.op = "unprotect"
  /\ last.self \in DebugProtectors
  /\ last.arg \in Objects
  /\ last.diag
  /\ num_active_protections[last.self] = 0
  /\ owned_refs[last.self][last.arg] = 0
  /\ protected_objects_dict[last.self] = EmptyDict

(* ------------------------------------------------------------------ *)
(* C32: no protection state is stuck                                   *)
(* ------------------------------------------------------------------ *)

\* the protect call of the protector p, by the type of p
ProtectCall(p, o) ==
  IF p \in FastProtectors
    THEN FastGCProtector_protect(p, o)
    ELSE RaisingGCProtector_protect(p, o)

\* the unprotect call of the accounting protector p, by the type of p
AccountingUnprotectCall(p, o) ==
  IF p \in RaisingProtectors
    THEN RaisingGCProtector_unprotect(p, o)
    ELSE DebugGCProtector_unprotect(p, o)

\* the model lets a protect of an object happen while the protections
\* outstanding are below MaxProt; the code has no such limit
BelowMaxProt(o) == o # Py_None => Outstanding < MaxProt

\* the counter and dictionary of p after k unprotect calls for o in a row,
\* and whether all of them ended without error and without diagnostic
RECURSIVE AfterUnprotects(_, _, _, _, _)
AfterUnprotects(p, num, dict, o, k) ==
  IF k = 0
    THEN [num |-> num, dict |-> dict, ok |-> TRUE]
    ELSE LET eff == IF p \in RaisingProtectors
                      THEN RaisingGCProtector_unprotect_effect(p, num, dict, o)
                      ELSE DebugGCProtector_unprotect_effect(p, num, dict, o)
         IN  IF eff.err # NoError \/ eff.diag
               THEN [num |-> eff.num, dict |-> eff.dict, ok |-> FALSE]
               ELSE AfterUnprotects(p, eff.num, eff.dict, o, k - 1)

\* C32: in every reachable state protect of every argument is possible on
\* every protector and ends without error (in the model: while the outstanding
\* protections are below MaxProt); on a raising or debug protector an object
\* with k >= 1 recorded protections can be unprotected, which ends without
\* error or diagnostic and leaves k - 1; k unprotect calls in a row all
\* succeed and leave the object without an entry, and a protect after them
\* records one protection again.
C32_NoStuckState ==
  /\ \A p \in CountingProtectors : \A o \in Arguments :
       /\ ProtectEffect(p, o).err = NoError
       /\ ProtectEffect(p, o).ret = <<o>>
       /\ BelowMaxProt(o)
          => ENABLED (ProtectCall(p, o) /\ last'.err = NoError /\ last'.ret = <<o>>)
  /\ \A p \in AccountingProtectors : \A o \in Objects :
       LET k     == RaisingGCProtector_get_num_object_protections(p, o)
           id    == PyLong_FromVoidPtr(o)
           empty == AfterUnprotects(p, num_active_protections[p],
                                    protected_objects_dict[p], o, k)
           again == RaisingGCProtector_protect_effect(empty.num, empty.dict, o)
       IN  /\ k >= 1
              => ENABLED (/\ AccountingUnprotectCall(p, o)
                          /\ last'.err = NoError
                          /\ ~ last'.diag
                          /\ RaisingGCProtector_get_num_object_protections(p, o)' = k - 1)
           /\ empty.ok
           /\ PyDict_GetItem(empty.dict, id) = NULL
           /\ empty.num = num_active_protections[p] - k
           /\ again.err = NoError
           /\ PyDict_GetItem(again.dict, id) = <<1>>

\* C32 witness: the last protection of an object has been removed from an
\* accounting protector, and the object can be protected by it again.
C32_Witness ==
  /\ last.op = "unprotect"
  /\ last.self \in AccountingProtectors
  /\ last.arg \in Objects
  /\ last.err = NoError
  /\ ~ last.diag
  /\ net_calls[last.self][last.arg] = 0
  /\ ENABLED (/\ RaisingGCProtector_protect(last.self, last.arg)
              /\ RaisingGCProtector_get_num_object_protections(last.self, last.arg)' = 1)

====
